---- MODULE Spec2Model ----
(***************************************************************************)
(* Two applications of the Galois runtime:                                 *)
(*   - Maximal Independent Set  (apps/independentset/IndependentSet.cpp)   *)
(*   - distributed BFS          (exp/apps/compiler_outputs/bfs_push-filter)*)
(* The operators (Process::build/modify, FirstItr_BFS, BFS, the Syncer     *)
(* callbacks) are translated from the sources.  The loop executors         *)
(* (for_each, for_each_det), the partitioned graph (hGraph: sync_push,     *)
(* sync_pull) and the DGAccumulator are library code that is not part of   *)
(* the two files; they are modelled from the specification (sections 4.2,  *)
(* 4.3, 4.5, 4.6).                                                         *)
(***************************************************************************)
EXTENDS Integers, Sequences, FiniteSets, TLC

Min(S) == CHOOSE x \in S : \A y \in S : x <= y

(***************************************************************************)
(*                      MAXIMAL INDEPENDENT SET                            *)
(***************************************************************************)

\* Number of vertices of the input graph and number of worker threads (-t).
NumNodes == 3
NumThreads == 2

Nodes == 0 .. (NumNodes - 1)
Threads == 1 .. NumThreads
\* graph.end(): one past the last vertex; also "no owner" of a logical lock.
NoNode == NumNodes

\* enum MatchFlag
UNMATCHED == "UNMATCHED"
OTHER_MATCHED == "OTHER_MATCHED"
MATCHED == "MATCHED"
MatchFlag == {UNMATCHED, OTHER_MATCHED, MATCHED}

\* enum MISAlgo, enum DetAlgo
MISAlgo == {"serial", "parallel"}
DetAlgo == {"nondet", "detBase", "detPrefix", "detDisjoint"}

VARIABLES
  graph,       \* graph[n]: the out-neighbours of n (CSR rows), fixed after load
  algo,        \* -algo
  detAlgo,     \* -detAlgo
  flag,        \* flag[n]: Node::flag
  wl,          \* items that can be dispatched to a worker
  roundItems,  \* for_each_det: the items of the current round
  phase,       \* for_each_det: "pending" (phase one) or "commit" (phase two)
  owner,       \* owner[n]: the item whose iteration holds n's logical lock
  notReady,    \* for_each_det: items that lost one of their marks
  lsMod,       \* lsMod[i]: LocalState::mod of item i (detDisjoint)
  thr          \* thr[t]: the operator invocation worker t is running

misVars == <<graph, algo, detAlgo, flag, wl, roundItems, phase, owner,
             notReady, lsMod, thr>>

\* The state of the BFS program.
VARIABLES
  edges,         \* edges[v]: the out-neighbours of GID v, fixed after load
  masterOf,      \* masterOf[v]: the host that owns v
  src_node,      \* -srcNodeId
  maxIterations, \* -maxIterations
  dist_current,  \* dist_current[h][v]: NodeData::dist_current of h's copy of v
  dist_old,      \* dist_old[h][v]: NodeData::dist_old of master v on h
  accum,         \* accum[h]: the local value of BFS::DGAccumulator_accum
  bpc,           \* the collective step all hosts are in
  stage,         \* "init", "first" (FirstItr_BFS::go) or "steady" (the loop)
  todo,          \* todo[h]: masters the running do_all has not started yet
  inprog,        \* inprog[h]: the operator invocations running on h
  sent,          \* sync_pull: hosts that have not yet received their mirrors' values
  net,           \* messages in flight
  reduced,       \* reduced[h]: what reduce() returned on h, once it has
  numRounds,     \* steady rounds started
  active,        \* history: masters that were active in the current round
  prePush        \* history: dist_current when the running sync_push began

bfsVars == <<edges, masterOf, src_node, maxIterations, dist_current, dist_old,
             accum, bpc, stage, todo, inprog, sent, net, reduced, numRounds,
             active, prePush>>

vars == <<misVars, bfsVars>>

Idle == [pc |-> "idle", item |-> NoNode, rest |-> {}, mod |-> FALSE]

\* The input graphs: every directed graph on Nodes, self-loops included.
Graphs == [Nodes -> SUBSET Nodes]

\* ------------------------------------------------------------ the operator

\* Mutant: the test of me.flag inverted.
SrcEligibleInverted(f, s) == f[s] # UNMATCHED

\* build, line 112: "if (me.flag != UNMATCHED) return false" negated.
SrcEligible(f, s) == f[s] = UNMATCHED

\* Mutant: build never looks at the neighbours' flags.
NbrNeverBlocks(f, d) == FALSE

\* build, line 119: a neighbour that makes build return false.
NbrBlocks(f, d) == f[d] = MATCHED

\* build<Flag>(src) on the CSR rows g: the loop with its early returns.
BuildOn(g, f, s) == SrcEligible(f, s) /\ \A d \in g[s] : ~NbrBlocks(f, d)

\* build<Flag>(src) on the loaded graph.
Build(f, s) == BuildOn(graph, f, s)

\* Mutants: modify leaves the neighbours unmatched; modify matches them.
NbrFlagUnmatched == UNMATCHED
NbrFlagMatched == MATCHED

\* modify, line 132: the flag written to each out-neighbour.
NbrFlag == OTHER_MATCHED

\* modify, line 135: the flag written to src, after the loop.
SrcFlag == MATCHED

\* modify(src) on the CSR rows g.
ModifyOn(g, f, s) ==
  [v \in DOMAIN f |-> IF v = s THEN SrcFlag
                      ELSE IF v \in g[s] THEN NbrFlag ELSE f[v]]

\* modify(src) on the loaded graph.
Modify(f, s) == ModifyOn(graph, f, s)

\* Process::operator()(GNode), the serial operator, on the CSR rows g.
SerialOpOn(g, f, s) == IF BuildOn(g, f, s) THEN ModifyOn(g, f, s) ELSE f

\* Process::operator()(GNode) on the loaded graph.
SerialOp(f, s) == SerialOpOn(graph, f, s)

\* SerialAlgo: std::for_each over the vertices 0 .. k-1 in ascending order,
\* starting from the flags f.
RECURSIVE SerialRunOn(_, _, _)
SerialRunOn(g, f, k) ==
  IF k = 0 THEN f ELSE SerialOpOn(g, SerialRunOn(g, f, k - 1), k - 1)

\* The flags SerialAlgo leaves on the loaded graph.
SerialRun == SerialRunOn(graph, [n \in Nodes |-> UNMATCHED], NumNodes)

\* ------------------------------------------------------------ the executor

\* Mutant: only detBase is dispatched to for_each_det.
IsDetBaseOnly == algo = "parallel" /\ detAlgo = "detBase"

IsDet == algo = "parallel" /\ detAlgo # "nondet"
IsNondet == algo = "parallel" /\ detAlgo = "nondet"

\* getData(v, ALL) in for_each: the element is held by another iteration.
Conflict(i, v) == IsNondet /\ owner[v] \notin {NoNode, i}

\* getData(v, ALL): the owner field after iteration i acquired v.  In a
\* deterministic round's phase one the lower item id wins the mark; in phase
\* two nothing is acquired.
AcqOwner(i, v) ==
  IF IsDet
  THEN IF phase = "pending" /\ (owner[v] = NoNode \/ owner[v] > i)
       THEN [owner EXCEPT ![v] = i] ELSE owner
  ELSE [owner EXCEPT ![v] = i]

\* for_each_det phase one: who is marked not ready by i acquiring v.
AcqNotReady(i, v) ==
  IF IsDet /\ phase = "pending" /\ owner[v] \notin {NoNode, i}
  THEN notReady \cup {IF owner[v] > i THEN owner[v] ELSE i}
  ELSE notReady

\* Releasing the acquired log of iteration i (commit or abort in for_each).
Release(i) ==
  IF IsNondet THEN [v \in Nodes |-> IF owner[v] = i THEN NoNode ELSE owner[v]]
  ELSE owner

\* Mutant: the parallel operator calls build<Galois::NONE>.
BuildFlagNone == "NONE"

\* The method flag of build in the parallel operator (lines 161, 164).
BuildFlag == "ALL"

\* graph.getData(v, Flag) inside build (lines 111, 118): with ALL the vertex
\* is acquired, with NONE it is only read.
BuildConflict(i, v) == BuildFlag = "ALL" /\ Conflict(i, v)
BuildAcqOwner(i, v) == IF BuildFlag = "ALL" THEN AcqOwner(i, v) ELSE owner
BuildAcqNotReady(i, v) ==
  IF BuildFlag = "ALL" THEN AcqNotReady(i, v) ELSE notReady

\* Mutant: the prefix operator does not return after build (line 166).
AfterBuildNoPrefixReturn(i, mod) ==
  IF detAlgo = "detDisjoint" /\ IsDet THEN Idle
  ELSE [pc |-> "failsafe", item |-> i, rest |-> {}, mod |-> mod]

\* The invocation state after build<ALL> returned mod (lines 159-171), and
\* the local state it stores.
AfterBuild(i, mod) ==
  IF detAlgo = "detDisjoint" /\ IsDet THEN Idle
  ELSE IF IsDet /\ detAlgo = "detPrefix" /\ phase = "pending" THEN Idle
  ELSE [pc |-> "failsafe", item |-> i, rest |-> {}, mod |-> mod]

\* Mutant: the detDisjoint operator drops the result of build.
AfterBuildLsNone(i, mod) == lsMod

\* "*modp = build<Galois::ALL>(src)" (line 161).
AfterBuildLs(i, mod) ==
  IF detAlgo = "detDisjoint" /\ IsDet THEN [lsMod EXCEPT ![i] = mod] ELSE lsMod

MISInit ==
  /\ graph \in Graphs
  /\ algo \in MISAlgo
  /\ detAlgo \in DetAlgo
  /\ (algo = "serial" => detAlgo = "nondet")
  /\ flag = [n \in Nodes |-> UNMATCHED]
  /\ wl = Nodes
  /\ roundItems = IF IsDet THEN Nodes ELSE {}
  /\ phase = "pending"
  /\ owner = [n \in Nodes |-> NoNode]
  /\ notReady = {}
  /\ lsMod = [n \in Nodes |-> FALSE]
  /\ thr = [t \in Threads |-> Idle]

\* SerialAlgo: std::for_each(graph.begin(), graph.end(), Process<>()).
SerialStep ==
  /\ algo = "serial"
  /\ wl # {}
  /\ LET s == Min(wl) IN
       /\ flag' = SerialOp(flag, s)
       /\ wl' = wl \ {s}
  /\ UNCHANGED <<graph, algo, detAlgo, roundItems, phase, owner, notReady,
                 lsMod, thr>>
  /\ UNCHANGED bfsVars

\* A worker takes an item and enters Process::operator()(src, ctx).
Pop(t) ==
  /\ algo = "parallel"
  /\ thr[t].pc = "idle"
  /\ \E i \in wl :
       /\ wl' = wl \ {i}
       /\ thr' = [thr EXCEPT ![t] =
            IF detAlgo = "detDisjoint" /\ phase = "commit"
            THEN \* used = true: lines 151-155
                 IF lsMod[i]
                 THEN [pc |-> "modify", item |-> i, rest |-> graph[i],
                       mod |-> TRUE]
                 ELSE Idle
            ELSE [pc |-> "src", item |-> i, rest |-> {}, mod |-> FALSE]]
  /\ UNCHANGED <<graph, algo, detAlgo, flag, roundItems, phase, owner,
                 notReady, lsMod>>
  /\ UNCHANGED bfsVars

\* build<ALL>: getData(src, ALL) and the test of me.flag (lines 111-113).
BuildSrc(t) ==
  /\ thr[t].pc = "src"
  /\ LET i == thr[t].item IN
       IF BuildConflict(i, i)
       THEN /\ owner' = Release(i)
            /\ wl' = wl \cup {i}
            /\ thr' = [thr EXCEPT ![t] = Idle]
            /\ UNCHANGED <<notReady, lsMod>>
       ELSE /\ owner' = BuildAcqOwner(i, i)
            /\ notReady' = BuildAcqNotReady(i, i)
            /\ wl' = wl
            /\ IF ~SrcEligible(flag, i)
               THEN /\ thr' = [thr EXCEPT ![t] = AfterBuild(i, FALSE)]
                    /\ lsMod' = AfterBuildLs(i, FALSE)
               ELSE IF graph[i] = {}
               THEN /\ thr' = [thr EXCEPT ![t] = AfterBuild(i, TRUE)]
                    /\ lsMod' = AfterBuildLs(i, TRUE)
               ELSE /\ thr' = [thr EXCEPT ![t] =
                          [pc |-> "nbrs", item |-> i, rest |-> graph[i],
                           mod |-> FALSE]]
                    /\ lsMod' = lsMod
  /\ UNCHANGED <<graph, algo, detAlgo, flag, roundItems, phase>>
  /\ UNCHANGED bfsVars

\* build<ALL>: one turn of the loop over the out-edges (lines 115-121).
BuildNbr(t) ==
  /\ thr[t].pc = "nbrs"
  /\ LET i == thr[t].item
         d == Min(thr[t].rest)
         rest == thr[t].rest \ {d}
     IN
       IF BuildConflict(i, d)
       THEN /\ owner' = Release(i)
            /\ wl' = wl \cup {i}
            /\ thr' = [thr EXCEPT ![t] = Idle]
            /\ UNCHANGED <<notReady, lsMod>>
       ELSE /\ owner' = BuildAcqOwner(i, d)
            /\ notReady' = BuildAcqNotReady(i, d)
            /\ wl' = wl
            /\ IF NbrBlocks(flag, d)
               THEN /\ thr' = [thr EXCEPT ![t] = AfterBuild(i, FALSE)]
                    /\ lsMod' = AfterBuildLs(i, FALSE)
               ELSE IF rest = {}
               THEN /\ thr' = [thr EXCEPT ![t] = AfterBuild(i, TRUE)]
                    /\ lsMod' = AfterBuildLs(i, TRUE)
               ELSE /\ thr' = [thr EXCEPT ![t].rest = rest]
                    /\ lsMod' = lsMod
  /\ UNCHANGED <<graph, algo, detAlgo, flag, roundItems, phase>>
  /\ UNCHANGED bfsVars

\* graph.getData(src, WRITE), the fail-safe point (line 168), and the test
\* of mod (line 169).  Phase one of a deterministic round ends the
\* invocation here; without mod the invocation returns and commits.
Failsafe(t) ==
  /\ thr[t].pc = "failsafe"
  /\ LET i == thr[t].item IN
       IF Conflict(i, i)
       THEN /\ owner' = Release(i)
            /\ wl' = wl \cup {i}
            /\ thr' = [thr EXCEPT ![t] = Idle]
       ELSE IF IsDet /\ phase = "pending"
       THEN /\ thr' = [thr EXCEPT ![t] = Idle]
            /\ UNCHANGED <<owner, wl>>
       ELSE IF thr[t].mod
       THEN /\ thr' = [thr EXCEPT ![t] =
                  [pc |-> "modify", item |-> i, rest |-> graph[i],
                   mod |-> TRUE]]
            /\ UNCHANGED <<owner, wl>>
       ELSE /\ thr' = [thr EXCEPT ![t] = Idle]
            /\ owner' = Release(i)
            /\ wl' = wl
  /\ UNCHANGED <<graph, algo, detAlgo, flag, roundItems, phase, notReady,
                 lsMod>>
  /\ UNCHANGED bfsVars

\* Mutant: the loop of modify never advances its edge iterator.
ModifyStepNoAdvance(t) ==
  /\ thr[t].pc = "modify"
  /\ LET i == thr[t].item IN
       IF thr[t].rest # {}
       THEN LET d == Min(thr[t].rest) IN
              /\ flag' = [flag EXCEPT ![d] = NbrFlag]
              /\ thr' = thr
              /\ owner' = owner
       ELSE /\ flag' = [flag EXCEPT ![i] = SrcFlag]
            /\ thr' = [thr EXCEPT ![t] = Idle]
            /\ owner' = Release(i)
  /\ UNCHANGED <<graph, algo, detAlgo, wl, roundItems, phase, notReady,
                 lsMod>>
  /\ UNCHANGED bfsVars

\* Mutant: the fail-safe point is placed after modify instead of before it.
ModifyStepThenFailsafe(t) ==
  /\ thr[t].pc = "modify"
  /\ LET i == thr[t].item IN
       IF thr[t].rest # {}
       THEN LET d == Min(thr[t].rest) IN
              /\ flag' = [flag EXCEPT ![d] = NbrFlag]
              /\ thr' = [thr EXCEPT ![t].rest = thr[t].rest \ {d}]
       ELSE /\ flag' = [flag EXCEPT ![i] = SrcFlag]
            /\ thr' = [thr EXCEPT ![t] =
                  [pc |-> "failsafe", item |-> i, rest |-> {}, mod |-> FALSE]]
  /\ UNCHANGED <<graph, algo, detAlgo, wl, roundItems, phase, owner, notReady,
                 lsMod>>
  /\ UNCHANGED bfsVars

\* modify: one write of the loop (line 132), or the write of me.flag
\* (line 135) after which the invocation returns and commits.
ModifyStep(t) ==
  /\ thr[t].pc = "modify"
  /\ LET i == thr[t].item IN
       IF thr[t].rest # {}
       THEN LET d == Min(thr[t].rest) IN
              /\ flag' = [flag EXCEPT ![d] = NbrFlag]
              /\ thr' = [thr EXCEPT ![t].rest = thr[t].rest \ {d}]
              /\ owner' = owner
       ELSE /\ flag' = [flag EXCEPT ![i] = SrcFlag]
            /\ thr' = [thr EXCEPT ![t] = Idle]
            /\ owner' = Release(i)
  /\ UNCHANGED <<graph, algo, detAlgo, wl, roundItems, phase, notReady,
                 lsMod>>
  /\ UNCHANGED bfsVars

\* for_each_det: the barrier that ends a phase.  After phase one the items
\* that hold all their marks go to phase two; after phase two the others
\* make the next round.
Barrier ==
  /\ IsDet
  /\ wl = {}
  /\ roundItems # {}
  /\ \A t \in Threads : thr[t].pc = "idle"
  /\ IF phase = "pending"
     THEN /\ phase' = "commit"
          /\ wl' = roundItems \ notReady
          /\ UNCHANGED <<roundItems, owner, notReady, lsMod>>
     ELSE /\ phase' = "pending"
          /\ roundItems' = roundItems \cap notReady
          /\ wl' = roundItems \cap notReady
          /\ owner' = [n \in Nodes |-> NoNode]
          /\ notReady' = {}
          /\ lsMod' = [n \in Nodes |-> FALSE]
  /\ UNCHANGED <<graph, algo, detAlgo, flag, thr>>
  /\ UNCHANGED bfsVars

MISNext ==
  \/ SerialStep
  \/ \E t \in Threads : Pop(t)
  \/ \E t \in Threads : BuildSrc(t)
  \/ \E t \in Threads : BuildNbr(t)
  \/ \E t \in Threads : Failsafe(t)
  \/ \E t \in Threads : ModifyStep(t)
  \/ Barrier


\* The MIS loop has drained its worklist.
Drained ==
  /\ wl = {}
  /\ roundItems = {}
  /\ \A t \in Threads : thr[t].pc = "idle"

(***************************************************************************)
(*                          DISTRIBUTED BFS                                *)
(***************************************************************************)

\* Number of vertices (GIDs) of the input graph, of hosts (net.Num) and of
\* worker threads of one host's do_all.
NumGIDs == 3
NumHosts == 3
NumWorkers == 2
\* Width of unsigned int in the model (32 in the build).
WordBits == 5
\* Largest value of -maxIterations the model draws.
MaxCap == 1

GIDs == 0 .. (NumGIDs - 1)
Hosts == 0 .. (NumHosts - 1)

\* std::numeric_limits<unsigned int>::max()
UINT_MAX == 2^WordBits - 1
\* const unsigned int infinity (line 93)
infinity == UINT_MAX \div 4


\* hGraph (edge-cut): a host holds its masters with all their out-edges, and
\* a mirror of every destination of theirs that another host owns.
Masters(h) == {v \in GIDs : masterOf[v] = h}
Mirrors(h) == {v \in GIDs : masterOf[v] # h /\ \E s \in Masters(h) : v \in edges[s]}
Local(h) == Masters(h) \cup Mirrors(h)
\* The hosts that hold a mirror of v.
MirrorHosts(v) == {h \in Hosts : v \in Mirrors(h)}

\* Not-yet-reduced value of reduced[h].
NotReduced == 0 - 1

\* Values an uninitialized NodeData field may hold.
Junk == {0, UINT_MAX}

\* ------------------------------------------------------------ the operators

\* Mutant: InitializeGraph uses the largest unsigned int as "unreached".
InitValueMax(v) == IF v = src_node THEN 0 ELSE UINT_MAX

\* InitializeGraph::operator(), lines 165-166.
InitValue(v) == IF v = src_node THEN 0 ELSE infinity

\* Mutant: the relaxation forgets the edge.
NewDistNoEdge(d) == d

\* "unsigned int new_dist = 1 + snode.dist_current" (lines 277, 408).
NewDist(d) == (1 + d) % (2^WordBits)

\* Galois::atomicMin / Galois::min: the value left in the field.
MinVal(a, b) == IF b < a THEN b ELSE a

\* Mutant: the mirror is reset to the BFS sentinel.
ResetToInfinity == infinity

\* Syncer_0::reset (lines 214, 335): the value a mirror is reset to.
ResetValue == UINT_MAX

\* Mutant: reduce assigns the received value.
ReduceAssign(cur, y) == y

\* Syncer_0::reduce (lines 197, 318).
Reduce(cur, y) == MinVal(cur, y)

\* Mutant: setVal keeps the smaller of the two values.
SetValMin(cur, y) == MinVal(cur, y)

\* SyncerPull_0::setVal (lines 139, 241, 362).
SetVal(cur, y) == y

\* Mutant: the operator of the loop has no filter.
IsActiveAlways(h, s) == TRUE

\* Mutant: the comparison of line 400 the other way round.
IsActiveInverted(h, s) == dist_old[h][s] < dist_current[h][s]

\* BFS::operator(), line 400: the master is active.
IsActive(h, s) == dist_old[h][s] > dist_current[h][s]

\* DGAccumulator::reduce(): the all-reduce with sum.
RECURSIVE SumOver(_, _)
SumOver(f, S) ==
  IF S = {} THEN 0 ELSE LET x == Min(S) IN f[x] + SumOver(f, S \ {x})

AllReduce(h) == SumOver(accum, Hosts)

\* Mutant: the loop stops when one master was active.
ContinueAboveOne(h) == reduced[h] > 1

\* "while (DGAccumulator_accum.reduce())", line 392.
Continue(h) == reduced[h] # 0

BFSInit ==
  /\ edges \in [GIDs -> SUBSET GIDs]
  /\ \A v \in GIDs : v \notin edges[v]
  /\ masterOf \in [GIDs -> Hosts]
  /\ src_node \in GIDs
  /\ maxIterations \in 1 .. MaxCap
  /\ \E j \in Junk :
       /\ dist_current = [h \in Hosts |-> [v \in Local(h) |-> j]]
       /\ dist_old = [h \in Hosts |-> [v \in Masters(h) |-> j]]
  /\ accum = [h \in Hosts |-> 0]
  /\ bpc = "compute"
  /\ stage = "init"
  /\ todo = [h \in Hosts |-> Masters(h)]
  /\ inprog = [h \in Hosts |-> {}]
  /\ sent = {}
  /\ net = {}
  /\ reduced = [h \in Hosts |-> NotReduced]
  /\ numRounds = 0
  /\ active = {}
  /\ prePush = dist_current

\* do_all of InitializeGraph on h (line 158): the operator on every master.
InitializeGraphOp(h) ==
  /\ bpc = "compute" /\ stage = "init"
  /\ todo[h] # {}
  /\ dist_current' = [dist_current EXCEPT ![h] =
       [v \in Local(h) |-> IF v \in Masters(h) THEN InitValue(v) ELSE @[v]]]
  /\ dist_old' = [dist_old EXCEPT ![h] = [v \in Masters(h) |-> InitValue(v)]]
  /\ todo' = [todo EXCEPT ![h] = {}]
  /\ UNCHANGED <<edges, masterOf, src_node, maxIterations, accum, bpc, stage,
                 inprog, sent, net, reduced, numRounds, active, prePush>>
  /\ UNCHANGED misVars

\* A worker of h starts FirstItr_BFS::operator() (lines 271-272) or
\* BFS::operator() (lines 398-404) on master s.
StartOp(h, s) ==
  /\ bpc = "compute" /\ stage # "init"
  /\ s \in todo[h]
  /\ Cardinality(inprog[h]) < NumWorkers
  /\ todo' = [todo EXCEPT ![h] = @ \ {s}]
  /\ IF stage = "first" \/ IsActive(h, s)
     THEN /\ dist_old' = [dist_old EXCEPT ![h][s] = dist_current[h][s]]
          /\ accum' = IF stage = "steady" THEN [accum EXCEPT ![h] = @ + 1]
                      ELSE accum
          /\ inprog' = IF edges[s] = {} THEN inprog
                       ELSE [inprog EXCEPT ![h] = @ \cup {[s |-> s, rest |-> edges[s]]}]
     ELSE UNCHANGED <<dist_old, accum, inprog>>
  /\ active' = IF stage = "steady" /\ dist_old[h][s] > dist_current[h][s]
               THEN active \cup {s} ELSE active
  /\ UNCHANGED <<edges, masterOf, src_node, maxIterations, dist_current, bpc,
                 stage, sent, net, reduced, numRounds, prePush>>
  /\ UNCHANGED misVars

\* One turn of the loop over the out-edges of s (lines 274-279, 405-410).
RelaxStep(h, r) ==
  /\ bpc = "compute" /\ stage # "init"
  /\ r \in inprog[h]
  /\ LET d == Min(r.rest)
         new_dist == NewDist(dist_current[h][r.s])
         rest == r.rest \ {d}
     IN /\ dist_current' =
             [dist_current EXCEPT ![h][d] = MinVal(@, new_dist)]
        /\ inprog' = [inprog EXCEPT ![h] =
             (@ \ {r}) \cup (IF rest = {} THEN {} ELSE {[s |-> r.s, rest |-> rest]})]
  /\ UNCHANGED <<edges, masterOf, src_node, maxIterations, dist_old, accum,
                 bpc, stage, todo, sent, net, reduced, numRounds, active,
                 prePush>>
  /\ UNCHANGED misVars

ComputeOver ==
  /\ bpc = "compute"
  /\ \A h \in Hosts : todo[h] = {} /\ inprog[h] = {}

\* The messages of a sync_push: every host extracts each of its mirrors
\* (Syncer_0::extract) for the mirror's master.
PushMessages ==
  {[kind |-> "push", to |-> masterOf[v], from |-> h, gid |-> v,
    val |-> dist_current[h][v]] : <<h, v>> \in {x \in Hosts \X GIDs : x[2] \in Mirrors(x[1])}}

\* The messages of a sync_pull: every host extracts each of its masters
\* (SyncerPull_0::extract) for every host that mirrors it.
PullMessages ==
  {[kind |-> "pull", to |-> x[2], from |-> masterOf[x[1]], gid |-> x[1],
    val |-> dist_current[masterOf[x[1]]][x[1]]] :
      x \in {y \in GIDs \X Hosts : y[1] \in Mirrors(y[2])}}

\* The do_all returned on every host.  InitializeGraph::go goes on to its
\* sync_pull (line 159), which ships the masters.  FirstItr_BFS::go and
\* BFS::go go on to sync_push (lines 265, 388): every host ships its
\* mirrors' values and resets them (Syncer_0::reset).
EndCompute ==
  /\ ComputeOver
  /\ prePush' = dist_current
  /\ IF stage = "init"
     THEN /\ bpc' = "pull"
          /\ net' = PullMessages
          /\ sent' = Hosts
          /\ UNCHANGED dist_current
     ELSE /\ bpc' = "push"
          /\ net' = PushMessages
          /\ sent' = sent
          /\ dist_current' = [h \in Hosts |-> [v \in Local(h) |->
               IF v \in Mirrors(h) THEN ResetValue ELSE dist_current[h][v]]]
  /\ UNCHANGED <<edges, masterOf, src_node, maxIterations, dist_old, accum,
                 stage, todo, inprog, reduced, numRounds, active>>
  /\ UNCHANGED misVars

\* sync_push on the master's host: reduce one received value.
PushRecv(m) ==
  /\ bpc = "push"
  /\ m \in net /\ m.kind = "push"
  /\ dist_current' = [dist_current EXCEPT ![m.to][m.gid] = Reduce(@, m.val)]
  /\ net' = net \ {m}
  /\ UNCHANGED <<edges, masterOf, src_node, maxIterations, dist_old, accum,
                 bpc, stage, todo, inprog, sent, reduced, numRounds, active,
                 prePush>>
  /\ UNCHANGED misVars

\* sync_push returned on every host; sync_pull begins (lines 267, 390) and
\* ships the masters.
EndPush ==
  /\ bpc = "push"
  /\ net = {}
  /\ bpc' = "pull"
  /\ net' = PullMessages
  /\ sent' = Hosts
  /\ UNCHANGED <<edges, masterOf, src_node, maxIterations, dist_current,
                 dist_old, accum, stage, todo, inprog, reduced, numRounds,
                 active, prePush>>
  /\ UNCHANGED misVars

\* sync_pull on the mirroring hosts: setVal of every received value.  The
\* hosts write different copies, so the order among them is not observable.
PullRecv ==
  /\ bpc = "pull"
  /\ sent # {}
  /\ dist_current' = [g \in Hosts |-> [v \in Local(g) |->
          IF \E m \in net : m.to = g /\ m.gid = v
          THEN SetVal(dist_current[g][v],
                      (CHOOSE m \in net : m.to = g /\ m.gid = v).val)
          ELSE dist_current[g][v]]]
  /\ net' = {}
  /\ sent' = {}
  /\ UNCHANGED <<edges, masterOf, src_node, maxIterations, dist_old, accum,
                 bpc, stage, todo, inprog, reduced, numRounds, active,
                 prePush>>
  /\ UNCHANGED misVars

PullOver ==
  /\ bpc = "pull"
  /\ sent = {}
  /\ net = {}

\* The first steady round begins: DGAccumulator_accum.reset() (line 294) and
\* the do_all of BFS (line 387).
BeginRound ==
  /\ accum' = [h \in Hosts |-> 0]
  /\ active' = {}
  /\ reduced' = [h \in Hosts |-> NotReduced]
  /\ numRounds' = numRounds + 1
  /\ todo' = [h \in Hosts |-> Masters(h)]
  /\ stage' = "steady"
  /\ bpc' = "compute"

\* sync_pull returned on every host.  After InitializeGraph::go comes
\* BFS::go, which calls FirstItr_BFS::go (line 291); after FirstItr_BFS::go
\* the do-while loop is entered; in the loop reduce() follows (line 392).
EndPull ==
  /\ PullOver
  /\ IF stage = "init"
     THEN /\ stage' = "first"
          /\ bpc' = "compute"
          /\ todo' = [h \in Hosts |-> Masters(h)]
          /\ UNCHANGED <<accum, active, reduced, numRounds>>
     ELSE IF stage = "first"
     THEN BeginRound
     ELSE /\ bpc' = "reduce"
          /\ UNCHANGED <<stage, todo, accum, active, reduced, numRounds>>
  /\ UNCHANGED <<edges, masterOf, src_node, maxIterations, dist_current,
                 dist_old, inprog, sent, net, prePush>>
  /\ UNCHANGED misVars

\* DGAccumulator_accum.reduce() (line 392): the collective all-reduce gives
\* every host its result.
ReduceStep ==
  /\ bpc = "reduce"
  /\ \A h \in Hosts : reduced[h] = NotReduced
  /\ reduced' = [h \in Hosts |-> AllReduce(h)]
  /\ UNCHANGED <<edges, masterOf, src_node, maxIterations, dist_current,
                 dist_old, accum, bpc, stage, todo, inprog, sent, net,
                 numRounds, active, prePush>>
  /\ UNCHANGED misVars

\* The loop condition on every host: another round, or BFS::go returns.
LoopBack ==
  /\ bpc = "reduce"
  /\ \A h \in Hosts : reduced[h] # NotReduced
  /\ IF \A h \in Hosts : Continue(h)
     THEN BeginRound
     ELSE /\ \A h \in Hosts : ~Continue(h)
          /\ bpc' = "done"
          /\ UNCHANGED <<accum, active, reduced, numRounds, todo, stage>>
  /\ UNCHANGED <<edges, masterOf, src_node, maxIterations, dist_current,
                 dist_old, inprog, sent, net, prePush>>
  /\ UNCHANGED misVars

BFSNext ==
  \/ \E h \in Hosts : InitializeGraphOp(h)
  \/ \E h \in Hosts, s \in GIDs : StartOp(h, s)
  \/ \E h \in Hosts : \E r \in inprog[h] : RelaxStep(h, r)
  \/ EndCompute
  \/ \E m \in net : PushRecv(m)
  \/ EndPush
  \/ PullRecv
  \/ EndPull
  \/ ReduceStep
  \/ LoopBack

\* The MIS program's state while the BFS program runs, and the reverse.
MISIdle ==
  /\ graph = [n \in Nodes |-> {}]
  /\ algo = "serial"
  /\ detAlgo = "nondet"
  /\ flag = [n \in Nodes |-> UNMATCHED]
  /\ wl = {}
  /\ roundItems = {}
  /\ phase = "pending"
  /\ owner = [n \in Nodes |-> NoNode]
  /\ notReady = {}
  /\ lsMod = [n \in Nodes |-> FALSE]
  /\ thr = [t \in Threads |-> Idle]

BFSIdle ==
  /\ edges = [v \in GIDs |-> {}]
  /\ masterOf = [v \in GIDs |-> 0]
  /\ src_node = 0
  /\ maxIterations = 1
  /\ dist_current = [h \in Hosts |-> [v \in Local(h) |-> 0]]
  /\ dist_old = [h \in Hosts |-> [v \in Masters(h) |-> 0]]
  /\ accum = [h \in Hosts |-> 0]
  /\ bpc = "off"
  /\ stage = "init"
  /\ todo = [h \in Hosts |-> {}]
  /\ inprog = [h \in Hosts |-> {}]
  /\ sent = {}
  /\ net = {}
  /\ reduced = [h \in Hosts |-> NotReduced]
  /\ numRounds = 0
  /\ active = {}
  /\ prePush = dist_current

\* The MIS program at the start of its algorithm; the BFS program not run.
InitMIS == MISInit /\ BFSIdle

\* The BFS program before InitializeGraph::go; the MIS program not run.
InitBFS == BFSInit /\ MISIdle

SpecMIS == InitMIS /\ [][MISNext]_vars

SpecBFS == InitBFS /\ [][BFSNext]_vars

\* The nondet loop alone: Galois::for_each<WL> with Process<>, every worker
\* scheduled fairly (a worker that can take a step eventually takes one).
InitNondet == InitMIS /\ IsNondet

WorkerStep(t) ==
  Pop(t) \/ BuildSrc(t) \/ BuildNbr(t) \/ Failsafe(t) \/ ModifyStep(t)

NondetNext == \E t \in Threads : WorkerStep(t)

SpecNondetFair ==
  /\ InitNondet
  /\ [][NondetNext]_vars
  /\ \A t \in Threads : WF_vars(WorkerStep(t))

\* The BFS program with every host making progress: a step that stays
\* possible (an operator invocation, a message delivery, a collective
\* returning) is eventually taken.
SpecBFSFair == InitBFS /\ [][BFSNext]_vars /\ WF_vars(BFSNext)

\* BFS on a line: the vertices 0, 1, ... in a row, each with an edge to the
\* next one (and, undirected, to the previous one), the source at vertex 0.
LineEdges == [v \in GIDs |-> {w \in GIDs : w = v + 1}]
UndirectedLineEdges == [v \in GIDs |-> {w \in GIDs : w = v + 1 \/ w = v - 1}]

InitBFSLine ==
  /\ edges \in {LineEdges, UndirectedLineEdges}
  /\ src_node = 0
  /\ InitBFS

SpecBFSLine == InitBFSLine /\ [][BFSNext]_vars

(***************************************************************************)
(*                    PROPERTIES OF THE MIS PROGRAM                        *)
(***************************************************************************)

\* The edge set is symmetric (the graph is undirected).
Symmetric == \A a \in Nodes : \A b \in graph[a] : a \in graph[b]

\* is_bad (lines 208-238) and verify (lines 246-248).
IsBad(n) ==
  IF flag[n] = MATCHED
  THEN \E dst \in graph[n] : dst # n /\ flag[dst] = MATCHED
  ELSE IF flag[n] = UNMATCHED
  THEN ~(\E dst \in graph[n] : flag[dst] # UNMATCHED)
  ELSE FALSE

Verify == \A n \in Nodes : ~IsBad(n)

\* C1. MIS independence: when the loop has drained its worklist, in every
\* mode, no MATCHED vertex has a MATCHED neighbour other than itself.
C1_Independence ==
  Drained =>
    \A v \in Nodes : flag[v] = MATCHED =>
      \A d \in graph[v] \ {v} : flag[d] # MATCHED

\* A parallel nondet run drained with two adjacent vertices, one MATCHED.
C1_Witness ==
  /\ Drained /\ IsNondet
  /\ \E v \in Nodes : flag[v] = MATCHED /\ graph[v] \ {v} # {}

\* C2 as stated: when the worklist drains no vertex is UNMATCHED, for every
\* input graph, symmetric or not.
C2_Original == Drained => \A v \in Nodes : flag[v] # UNMATCHED

\* C2 amended: when the worklist drains on a graph whose edge set is
\* symmetric, every vertex is MATCHED or OTHER_MATCHED.
C2_PartitionSymmetric ==
  (Drained /\ Symmetric) => \A v \in Nodes : flag[v] \in {MATCHED, OTHER_MATCHED}

\* A parallel run drained on a symmetric graph with an edge between two
\* different vertices.
C2_Witness ==
  /\ Drained /\ Symmetric /\ algo = "parallel"
  /\ \E v \in Nodes : graph[v] \ {v} # {}

\* C3. After any complete MIS run verify() returns true.
C3_VerifyPasses == Drained => Verify

\* A drained run that left a vertex UNMATCHED: verify() takes its second
\* branch and finds a neighbour that is not UNMATCHED.
C3_Witness ==
  /\ Drained
  /\ \E v \in Nodes : flag[v] = UNMATCHED
  /\ \E v \in Nodes : flag[v] = MATCHED /\ graph[v] \ {v} # {}

\* C4 as stated, a neighbour being the destination of an out-edge as
\* everywhere in the program: at termination every OTHER_MATCHED vertex has
\* a MATCHED out-neighbour.
C4_Original ==
  Drained =>
    \A v \in Nodes : flag[v] = OTHER_MATCHED =>
      \E d \in graph[v] : flag[d] = MATCHED

\* C4 amended: at termination every OTHER_MATCHED vertex v is the
\* out-neighbour of a MATCHED vertex s (there is an edge s -> v); on a
\* symmetric graph s is a neighbour of v.
C4_OtherMatchedHasMatchedIn ==
  Drained =>
    \A v \in Nodes : flag[v] = OTHER_MATCHED =>
      \E s \in Nodes \ {v} : v \in graph[s] /\ flag[s] = MATCHED

\* A drained parallel run with an OTHER_MATCHED vertex.
C4_Witness ==
  /\ Drained /\ algo = "parallel"
  /\ \E v \in Nodes : flag[v] = OTHER_MATCHED

\* C11. Determinism: in detBase, detPrefix and detDisjoint the flags at the
\* end of the loop are a function of the input graph only, the same for
\* every interleaving and for every number of workers that take part: they
\* are the flags the serial loop in ascending id order leaves on that graph.
C11_Determinism ==
  (Drained /\ algo = "parallel" /\ detAlgo \in {"detBase", "detPrefix", "detDisjoint"})
     => flag = SerialRun

\* A deterministic run drained on the undirected path 0 - 1 - 2, which takes
\* more than one round and where the racing order of 0 and 1 would matter.
C11_Witness ==
  /\ Drained /\ algo = "parallel" /\ detAlgo = "detDisjoint"
  /\ graph = [n \in Nodes |-> IF n = 1 THEN {0, 2} ELSE IF n \in {0, 2} THEN {1} ELSE {}]
  /\ flag[0] = MATCHED /\ flag[1] = OTHER_MATCHED

\* The undirected path 0 - 1 - 2 - 3 - 4 as CSR rows.
Path5 == [n \in 0 .. 4 |-> {m \in 0 .. 4 : m = n - 1 \/ m = n + 1}]

\* The flags SerialAlgo leaves on Path5.
Path5Flags == SerialRunOn(Path5, [n \in 0 .. 4 |-> UNMATCHED], 5)

\* C13. Serial MIS is the greedy independent set in ascending vertex order:
\* after SerialAlgo on an undirected graph a vertex is MATCHED if and only
\* if none of its lower-id neighbours is MATCHED, and every other vertex is
\* OTHER_MATCHED; on the path 0-1-2-3-4 the flags are MATCHED, OTHER_MATCHED,
\* MATCHED, OTHER_MATCHED, MATCHED, three of them MATCHED.
C13_SerialGreedy ==
  (Drained /\ algo = "serial") =>
    /\ Symmetric =>
         \A v \in Nodes :
           /\ flag[v] = MATCHED <=>
                ~(\E u \in graph[v] : u < v /\ flag[u] = MATCHED)
           /\ flag[v] # MATCHED => flag[v] = OTHER_MATCHED
    /\ Path5Flags = [n \in 0 .. 4 |-> IF n \in {0, 2, 4} THEN MATCHED
                                       ELSE OTHER_MATCHED]
    /\ Cardinality({n \in 0 .. 4 : Path5Flags[n] = MATCHED}) = 3

\* SerialAlgo returned on the undirected path 0 - 1 - 2: vertex 1 has a
\* MATCHED lower-id neighbour, vertex 2 has a lower-id neighbour that is not.
C13_Witness ==
  /\ Drained /\ algo = "serial" /\ Symmetric
  /\ graph = [n \in Nodes |-> IF n = 1 THEN {0, 2} ELSE IF n \in {0, 2} THEN {1} ELSE {}]
  /\ flag[1] = OTHER_MATCHED /\ flag[2] = MATCHED

\* Worker t leaves its invocation and the item goes back to the worklist.
AbortStep(t) ==
  /\ thr[t].pc # "idle" /\ thr'[t].pc = "idle"
  /\ thr[t].item \notin wl /\ thr[t].item \in wl'

\* One step of the loop in nondet or detBase, for C15:
\*  - a flag changes only in a step of a worker that is inside modify;
\*  - an invocation that aborts is still in build or at the fail-safe point
\*    and its aborting step changes no flag;
\*  - an invocation inside modify stays there until it returns, and then it
\*    commits (its item is not pushed back), so no abort follows a write;
\*  - phase one of a detBase round, whose invocations can still lose their
\*    marks, changes no flag, and an item that lost a mark never enters
\*    modify in that round.
C15_Step ==
  (algo = "parallel" /\ detAlgo \in {"nondet", "detBase"}) =>
    /\ flag' # flag =>
         \E t \in Threads : thr[t].pc = "modify" /\ thr'[t] # thr[t]
    /\ \A t \in Threads :
         /\ AbortStep(t) =>
              thr[t].pc \in {"src", "nbrs", "failsafe"} /\ flag' = flag
         /\ thr[t].pc = "modify" =>
              /\ thr'[t].pc \in {"modify", "idle"}
              /\ thr'[t].pc = "modify" => thr'[t].item = thr[t].item
              /\ thr'[t].pc = "idle" => thr[t].item \notin wl'
         /\ thr'[t].pc = "modify" =>
              (IsDet => phase = "commit" /\ thr'[t].item \notin notReady)
    /\ (IsDet /\ phase = "pending") => flag' = flag

\* C15. No partial commit: in nondet and detBase an invocation of the
\* parallel operator that aborts on a conflict has changed no vertex flag;
\* every flag write of an invocation happens in modify, after the last point
\* at which the invocation can abort.
C15_NoPartialCommit == [][C15_Step]_vars

\* A nondet invocation in build<ALL> about to abort on a vertex held by an
\* invocation that has already written a neighbour's flag in modify.
C15_Witness ==
  /\ IsNondet
  /\ \E t \in Threads : \E u \in Threads \ {t} :
       /\ thr[t].pc = "nbrs" /\ Conflict(thr[t].item, Min(thr[t].rest))
       /\ thr[u].pc = "modify" /\ thr[u].rest # graph[thr[u].item]

\* The vertices whose flag the invocation of worker t writes in modify.
WriteSet(t) == {thr[t].item} \cup graph[thr[t].item]

\* The vertex whose flag worker t reads in its next step of build.
ReadTarget(t) == IF thr[t].pc = "src" THEN thr[t].item ELSE Min(thr[t].rest)

\* C16. Flag writes happen only under ownership: an invocation of the
\* parallel operator that is in modify (in nondet, detBase, detPrefix's
\* second phase and the detDisjoint replay) holds every vertex it writes,
\* the item and its out-neighbours; running invocations work on different
\* items, so two of them never write the same vertex; and an invocation
\* that is about to read, in build, a vertex another invocation writes is
\* stopped by the conflict instead of reading it.
C16_WritesUnderOwnership ==
  algo = "parallel" =>
    /\ \A t \in Threads : thr[t].pc = "modify" =>
         \A v \in WriteSet(t) : owner[v] = thr[t].item
    /\ \A t \in Threads : \A u \in Threads \ {t} :
         (thr[t].pc # "idle" /\ thr[u].pc # "idle") => thr[t].item # thr[u].item
    /\ \A t \in Threads : \A u \in Threads \ {t} :
         (thr[u].pc = "modify" /\ thr[t].pc \in {"src", "nbrs"}
            /\ ReadTarget(t) \in WriteSet(u))
           => Conflict(thr[t].item, ReadTarget(t))

\* A detDisjoint replay is inside modify with a neighbour still to write,
\* while another worker runs an invocation of the same round.
C16_Witness ==
  /\ algo = "parallel" /\ detAlgo = "detDisjoint" /\ phase = "commit"
  /\ \E t \in Threads : \E u \in Threads \ {t} :
       /\ thr[t].pc = "modify" /\ thr[t].rest # {}
       /\ thr[u].pc # "idle"

\* The items that are in the worklist or held by a worker.
Pending == wl \cup {thr[t].item : t \in {u \in Threads : thr[u].pc # "idle"}}

\* Worker t returns from the operator without a conflict: the invocation
\* commits.
CommitStep(t) ==
  /\ thr[t].pc \in {"failsafe", "modify"} /\ thr'[t].pc = "idle"
  /\ thr[t].item \notin wl'

\* No worker aborts in this step.
NoAbort == \A t \in Threads : ~AbortStep(t)

C17_LeavesByCommit ==
  \A i \in Nodes :
    (i \in Pending /\ i \notin Pending') =>
      \E t \in Threads : thr[t].item = i /\ CommitStep(t)

Committed(v) == v \notin Pending /\ v \notin roundItems

\* C18. The MIS operator is idempotent: in every state reached after the
\* first committed application of Process to a vertex (serial or parallel,
\* with or without a retry before the commit), applying Process to that
\* vertex once more changes no flag.
C18_Idempotent ==
  \A v \in Nodes : Committed(v) => SerialOp(flag, v) = flag

\* While the parallel loop is still running, a vertex whose invocation
\* committed without matching it (an out-neighbour was MATCHED) and a vertex
\* whose invocation matched it.
C18_Witness ==
  /\ algo = "parallel" /\ ~Drained
  /\ \E v \in Nodes : \E w \in graph[v] \ {v} :
       /\ Committed(v) /\ flag[v] = UNMATCHED
       /\ Committed(w) /\ flag[w] = MATCHED

\* One step, for C20: a worker's write in the loop of modify to an
\* out-neighbour other than the item finds a flag that is not MATCHED, the
\* serial operator matches s only when no out-neighbour is MATCHED, a
\* MATCHED flag stays MATCHED and a flag that is not UNMATCHED never becomes
\* UNMATCHED.
C20_Step ==
  /\ \A t \in Threads :
       (thr[t].pc = "modify" /\ thr'[t] # thr[t] /\ thr[t].rest # {}
          /\ Min(thr[t].rest) # thr[t].item)
         => flag[Min(thr[t].rest)] # MATCHED
  /\ (algo = "serial" /\ wl # {} /\ wl' # wl /\ Build(flag, Min(wl))) =>
       \A d \in graph[Min(wl)] \ {Min(wl)} : flag[d] # MATCHED
  /\ \A v \in Nodes :
       /\ flag[v] = MATCHED => flag'[v] = MATCHED
       /\ flag[v] # UNMATCHED => flag'[v] # UNMATCHED

\* C20. modify never overwrites a MATCHED flag: in every mode, when
\* modify(s) sets the flag of an out-neighbour t of s, t different from s,
\* to OTHER_MATCHED, t's flag was not MATCHED just before; a vertex that has
\* become MATCHED stays MATCHED and a vertex that has left UNMATCHED never
\* returns to UNMATCHED.
C20_ModifyKeepsMatched == [][C20_Step]_vars

\* A worker is inside modify with an out-neighbour still to write, while
\* another vertex of the graph is already MATCHED.
C20_Witness ==
  \E t \in Threads :
    /\ thr[t].pc = "modify" /\ thr[t].rest # {}
    /\ Min(thr[t].rest) # thr[t].item
    /\ \E m \in Nodes : flag[m] = MATCHED

\* Worker t takes item i from the worklist in this step.
Dispatch(t, i) ==
  /\ thr[t].pc = "idle" /\ thr'[t] # thr[t]
  /\ i \in wl /\ wl' = wl \ {i}

\* One step of a detDisjoint round, for C21.
\*  Phase one (used = false): no flag changes, every dispatched item enters
\*  build at its first line, and an invocation that returns has stored in
\*  the item's local state what build<ALL> returns on the flags of the round.
\*  When phase one ends, the items that go to phase two all carry the stored
\*  result of a build that ran to its end.
\*  Phase two (used = true): a dispatched item enters modify exactly when
\*  its stored mod is true and otherwise returns at once, no invocation is
\*  ever inside build or at the fail-safe point, and the local states are
\*  only read.
\*  An item leaves the rounds only at the end of a phase two in which it
\*  held all its marks; an item that lost a mark is dispatched again in the
\*  next round with a fresh local state, that is with used = false.
C21_Step ==
  (IsDet /\ detAlgo = "detDisjoint") =>
    /\ phase = "pending" =>
         /\ flag' = flag
         /\ \A t \in Threads :
              /\ \A i \in Nodes : Dispatch(t, i) =>
                   thr'[t] = [pc |-> "src", item |-> i, rest |-> {},
                              mod |-> FALSE]
              /\ (thr[t].pc \in {"src", "nbrs"} /\ thr'[t].pc = "idle") =>
                   lsMod'[thr[t].item] = Build(flag, thr[t].item)
              /\ thr'[t].pc \in {"idle", "src", "nbrs"}
         /\ phase' = "commit" =>
              /\ wl' = roundItems \ notReady
              /\ \A i \in wl' : lsMod[i] = Build(flag, i)
              /\ lsMod' = lsMod
    /\ phase = "commit" =>
         /\ \A t \in Threads :
              /\ \A i \in Nodes : Dispatch(t, i) =>
                   /\ i \in roundItems \ notReady
                   /\ lsMod[i] =>
                        thr'[t] = [pc |-> "modify", item |-> i,
                                   rest |-> graph[i], mod |-> TRUE]
              /\ (thr[t].pc = "idle" /\ thr'[t].pc # "idle") =>
                   lsMod[thr'[t].item]
              /\ thr'[t].pc \in {"idle", "modify"}
         /\ phase' = "commit" => lsMod' = lsMod
         /\ phase' = "pending" =>
              /\ roundItems' = roundItems \cap notReady
              /\ wl' = roundItems'
              /\ \A i \in roundItems' : ~lsMod'[i]
    /\ \A i \in roundItems \ roundItems' :
         phase = "commit" /\ phase' = "pending" /\ i \notin notReady

\* C21. detDisjoint two-phase replay: the first invocation of
\* Process<detDisjoint> on an item (used = false) stores the result of
\* build<ALL> in the item's local state mod and writes no flag; the replay
\* invocation (used = true) runs modify if and only if the stored mod is
\* true and never runs build again; an item whose first invocation lost a
\* mark is not lost: it stays in the rounds and is executed again with a
\* full build before the loop halts.
C21_DisjointReplay ==
  /\ [][C21_Step]_vars
  /\ []((IsDet /\ detAlgo = "detDisjoint" /\ Drained) => flag = SerialRun)

\* A later round of detDisjoint: an item that lost a mark in an earlier
\* round has been built again, its stored mod is true and its replay is
\* inside modify.
C21_Witness ==
  /\ IsDet /\ detAlgo = "detDisjoint" /\ phase = "commit"
  /\ roundItems # Nodes
  /\ \E t \in Threads : thr[t].pc = "modify" /\ lsMod[thr[t].item]

\* One step of a detPrefix run, for C22.
\*  Phase one (Process<detPrefix>): no flag changes; an invocation is in
\*  build or has returned, it never reaches the fail-safe point or modify.
\*  Phase two (Process<>): a dispatched item runs the full operator from the
\*  first line of build, and a flag changes only in a step of a worker that
\*  is inside modify of that operator.
C22_Step ==
  (IsDet /\ detAlgo = "detPrefix") =>
    /\ phase = "pending" =>
         /\ flag' = flag
         /\ \A t \in Threads : thr'[t].pc \in {"idle", "src", "nbrs"}
         /\ \A t \in Threads :
              (thr[t].pc \in {"src", "nbrs"} /\ thr'[t].pc = "idle") =>
                thr[t].item \notin wl'
    /\ phase = "commit" =>
         \A t \in Threads : \A i \in Nodes : Dispatch(t, i) =>
           thr'[t] = [pc |-> "src", item |-> i, rest |-> {}, mod |-> FALSE]
    /\ flag' # flag =>
         /\ phase = "commit"
         /\ \E t \in Threads :
              /\ thr[t].pc = "modify" /\ thr'[t] # thr[t]
              /\ thr[t].item \in roundItems \ notReady

\* C22. detPrefix phase one is read-only: an invocation of the prefix
\* operator Process<detPrefix> runs build<ALL> and returns without calling
\* modify, so it leaves the flag of every vertex unchanged; all flag changes
\* in detPrefix mode are made by the full operator Process<> in phase two.
C22_PrefixReadOnly == [][C22_Step]_vars

\* Phase one of a later detPrefix round: the prefix operator is inside the
\* loop of build while an earlier phase two has already matched a vertex.
C22_Witness ==
  /\ IsDet /\ detAlgo = "detPrefix" /\ phase = "pending"
  /\ roundItems # Nodes
  /\ \E m \in Nodes : flag[m] = MATCHED
  /\ \E t \in Threads : thr[t].pc = "nbrs"

(***************************************************************************)
(*                    PROPERTIES OF THE BFS PROGRAM                        *)
(***************************************************************************)

\* The vertices reachable from the source over at most k edges.
RECURSIVE ReachWithin(_)
ReachWithin(k) ==
  IF k = 0 THEN {src_node}
  ELSE LET R == ReachWithin(k - 1) IN
         R \cup {t \in GIDs : \E s \in R : t \in edges[s]}

\* The unweighted shortest-path length from the source, infinity if none.
ShortestPath(v) ==
  IF v \notin ReachWithin(NumGIDs) THEN infinity
  ELSE Min({k \in 0 .. NumGIDs : v \in ReachWithin(k)})

\* The master copy of v.
MasterDist(v) == dist_current[masterOf[v]][v]

\* Every mirror holds its master's dist_current.
MirrorConsistent ==
  \A h \in Hosts : \A v \in Mirrors(h) : dist_current[h][v] = MasterDist(v)

\* sync_push has returned on all hosts and no sync_pull value has been set.
AfterPush == bpc = "pull" /\ sent = Hosts /\ stage # "init"

\* C5. BFS correctness: when BFS::go returns every master holds the
\* shortest-path length from the source, or infinity if unreachable.
C5_BFSCorrect ==
  bpc = "done" => \A v \in GIDs : MasterDist(v) = ShortestPath(v)

\* BFS::go returned on a graph with a vertex two edges away from the source,
\* reached through a mirror, and an unreachable vertex or not.
C5_Witness ==
  /\ bpc = "done"
  /\ \E v \in GIDs : ShortestPath(v) = 2
  /\ \E h \in Hosts : Mirrors(h) # {}

\* C6. Mirror consistency: whenever sync_pull has returned on all hosts
\* (after InitializeGraph, the bootstrap and each steady round), and until
\* the next operator runs, every mirror equals its master.
C6_MirrorConsistency ==
  (PullOver \/ bpc \in {"reduce", "done"}) => MirrorConsistent

\* The sync_pull of a steady round returned and some mirror holds a
\* distance that was computed, neither 0 nor infinity.
C6_Witness ==
  /\ PullOver /\ stage = "steady"
  /\ \E h \in Hosts : \E v \in Mirrors(h) :
       dist_current[h][v] > 0 /\ dist_current[h][v] < infinity

\* C7 as stated: right after sync_push every mirror holds the sentinel
\* infinity = max/4.
C7_Original ==
  AfterPush => \A h \in Hosts : \A v \in Mirrors(h) : dist_current[h][v] = infinity

\* C7 amended: right after sync_push every mirror holds the reduction
\* identity of min, std::numeric_limits<unsigned int>::max(), which is not
\* the sentinel infinity.
C7_ResetIdentity ==
  AfterPush =>
    \A h \in Hosts : \A v \in Mirrors(h) :
      dist_current[h][v] = UINT_MAX /\ dist_current[h][v] # infinity

\* A sync_push returned on a partition that has a mirror.
C7_Witness == AfterPush /\ \E h \in Hosts : Mirrors(h) # {}

\* C8. Push-reduce aggregation: after sync_push each master holds the
\* minimum of its value and its mirrors' values before the push, in every
\* order of arrival.
C8_PushAggregates ==
  AfterPush =>
    \A v \in GIDs :
      MasterDist(v) =
        Min({prePush[masterOf[v]][v]} \cup {prePush[g][v] : g \in MirrorHosts(v)})

\* A sync_push returned for a master with two mirrors that contributed
\* different values, one of them below the master's.
C8_Witness ==
  /\ AfterPush
  /\ \E v \in GIDs : \E g1 \in MirrorHosts(v) : \E g2 \in MirrorHosts(v) :
       /\ prePush[g1][v] < prePush[masterOf[v]][v]
       /\ prePush[g2][v] # prePush[g1][v]

\* In a steady round each host's accumulator
\* counts the host's masters that were active in the round (so it was reset
\* when the round began); reduce() returns to every host the number of
\* masters active in the round over all hosts; BFS::go runs another round
\* if and only if that number is greater than 0, on all hosts alike.
C9_Counts ==
  /\ stage = "steady" =>
       \A h \in Hosts : accum[h] = Cardinality(active \cap Masters(h))
  /\ \A h \in Hosts : reduced[h] # NotReduced => reduced[h] = Cardinality(active)
  /\ \A h \in Hosts : \A g \in Hosts :
       (reduced[h] # NotReduced /\ reduced[g] # NotReduced) =>
         (Continue(h) <=> Continue(g))

\* The step that leaves the while test of BFS::go starts another steady round
\* exactly when some master was active in the round, and returns otherwise.
C9_Decision ==
  (bpc = "reduce" /\ bpc' # "reduce") =>
     /\ (active # {}) <=> (bpc' = "compute" /\ numRounds' = numRounds + 1)
     /\ (active = {}) <=> (bpc' = "done")

\* C9. Distributed termination detection: the accumulator counts the active
\* masters of the round on every host, reduce() returns their total to all
\* hosts alike, and the loop runs another steady round if and only if that
\* total is greater than 0.
C9_TerminationDetection == []C9_Counts /\ [][C9_Decision]_vars

\* reduce() returned the sum of the counts of two hosts that both had an
\* active master in the round.
C9_Witness ==
  /\ bpc = "reduce"
  /\ \E h \in Hosts : reduced[h] > 1
  /\ \E h \in Hosts : \E g \in Hosts \ {h} : accum[h] > 0 /\ accum[g] > 0

\* C10. Iteration cap: the loop never starts more than maxIterations steady
\* rounds.
C10_IterationCap == numRounds <= maxIterations

\* C12 as stated, for a line of NumGIDs vertices: BFS::go returns with
\* dist_current = [0, 1, ..., NumGIDs - 1] and reduce() returns 0 at the end
\* of steady round NumGIDs - 1 exactly, in every order and partition.
C12_Original ==
  bpc = "done" =>
    /\ \A v \in GIDs : MasterDist(v) = v
    /\ numRounds = NumGIDs - 1

\* C12 amended: BFS on a line of NumGIDs vertices with source 0 ends with
\* dist_current = [0, 1, ..., NumGIDs - 1] in every order and partition;
\* the number of steady rounds after which reduce() returns 0 depends on
\* the order and the partition and lies between 1 and NumGIDs.
C12_LineBFS ==
  bpc = "done" =>
    /\ \A v \in GIDs : MasterDist(v) = v
    /\ numRounds \in 1 .. NumGIDs

\* BFS::go returned on the line after NumGIDs steady rounds, the frontier
\* having advanced by one vertex in each round.
C12_Witness ==
  /\ bpc = "done" /\ numRounds = NumGIDs
  /\ edges = LineEdges /\ src_node = 0
  /\ \A v \in GIDs : MasterDist(v) = v

\* BFS::go returned on the line after a single steady round: the bootstrap
\* relaxed the whole line, each vertex having been processed after its
\* predecessor on the same host.
C12_OneRound ==
  /\ bpc = "done" /\ numRounds = 1
  /\ edges = LineEdges /\ src_node = 0

\* C14. Unreachable vertices keep the sentinel: once InitializeGraph::go has
\* run, at every point of FirstItr_BFS::go and BFS::go (in particular
\* wherever an operator can read it) and when BFS::go returns, the master
\* copy of every vertex that is not reachable from the source holds exactly
\* infinity = max/4.
C14_UnreachableKeepSentinel ==
  stage # "init" =>
    \A v \in GIDs \ ReachWithin(NumGIDs) : MasterDist(v) = infinity

\* The bootstrap is relaxing the out-edges of a vertex that is not reachable
\* from the source, towards a vertex whose local copy is a mirror.
C14_Witness ==
  /\ stage = "first" /\ bpc = "compute"
  /\ \E h \in Hosts : \E r \in inprog[h] :
       /\ r.s \notin ReachWithin(NumGIDs)
       /\ Min(r.rest) \in Mirrors(h)

\* C19 as stated: after InitializeGraph::go no step (relaxation, push-reduce,
\* reset, pull) increases the dist_current of any vertex copy, master or
\* mirror.
C19_Original ==
  [][stage # "init" =>
       \A h \in Hosts : \A v \in Local(h) :
         dist_current'[h][v] <= dist_current[h][v]]_vars

\* One step after InitializeGraph::go, for C19 amended: a master copy never
\* increases; a mirror copy increases only in the step that starts a
\* sync_push, whose reset stores the largest unsigned int in it.
C19_Step ==
  stage # "init" =>
    /\ \A v \in GIDs :
         dist_current'[masterOf[v]][v] <= dist_current[masterOf[v]][v]
    /\ \A h \in Hosts : \A v \in Mirrors(h) :
         dist_current'[h][v] > dist_current[h][v] =>
           /\ bpc = "compute" /\ bpc' = "push"
           /\ dist_current'[h][v] = UINT_MAX

\* After InitializeGraph::go every master has dist_old >= dist_current, and
\* when a sync_pull has returned every copy is at most what it was when
\* the round's sync_push began.
C19_Boundary ==
  stage # "init" =>
    /\ \A h \in Hosts : \A v \in Masters(h) :
         dist_old[h][v] >= dist_current[h][v]
    /\ PullOver =>
         \A h \in Hosts : \A v \in Local(h) :
           dist_current[h][v] <= prePush[h][v]

\* C19 amended: from the end of InitializeGraph::go until BFS::go returns
\* the dist_current of a master never increases across any step; the
\* dist_current of a mirror never increases across a relaxation or a pull,
\* but the reset of sync_push raises it to the largest unsigned int until
\* the following sync_pull, after which it is at most its value before the
\* push; for every master dist_old >= dist_current holds throughout.
C19_Monotonic == [][C19_Step]_vars /\ []C19_Boundary

\* The sync_pull of the bootstrap returned and a mirror holds less than it
\* did before the push: its master was lowered on another host.
C19_Witness ==
  /\ PullOver /\ stage = "first"
  /\ \E h \in Hosts : \E v \in Mirrors(h) :
       dist_current[h][v] < prePush[h][v]

\* The source values of the relaxations that are running: the dist_current
\* of the master whose out-edges a worker is walking (lines 277, 408).
RelaxSources == {dist_current[h][r.s] : <<h, r>> \in
                   {x \in Hosts \X UNION {inprog[g] : g \in Hosts} :
                      x[2] \in inprog[x[1]]}}

\* A sync_push has begun and the following sync_pull has not yet set the
\* mirrors.
PushToPull == bpc = "push" \/ (bpc = "pull" /\ sent # {})

\* C23. BFS never underestimates and never wraps: in every state from the
\* end of the do_all of InitializeGraph on, the dist_current of every master
\* is at least the true shortest-path length from the source (infinity for
\* an unreachable vertex) and at most infinity; every value from which an
\* operator invocation computes 1 + dist_current is at most infinity, so
\* below the unsigned maximum, and the sum does not wrap; and after
\* InitializeGraph::go the unsigned maximum written by the push reset is
\* present only on mirrors, between a sync_push and the following sync_pull.
C23_NoUnderestimateNoWrap ==
  /\ (stage # "init" \/ bpc = "pull") =>
       \A v \in GIDs :
         MasterDist(v) >= ShortestPath(v) /\ MasterDist(v) <= infinity
  /\ \A d \in RelaxSources :
       d <= infinity /\ d # ResetValue /\ NewDist(d) = d + 1
  /\ stage # "init" =>
       \A h \in Hosts : \A v \in Local(h) :
         /\ dist_current[h][v] >= ShortestPath(v)
         /\ dist_current[h][v] = ResetValue =>
              v \in Mirrors(h) /\ PushToPull

\* A steady round after a push reset: a worker relaxes the out-edges of a
\* master at distance infinity (the largest value a relaxation starts from)
\* towards a mirror, on a graph that has a vertex two edges from the source.
C23_Witness ==
  /\ stage = "steady" /\ bpc = "compute"
  /\ \E v \in GIDs : ShortestPath(v) = 2
  /\ \E h \in Hosts : \E r \in inprog[h] :
       /\ dist_current[h][r.s] >= 1
       /\ r.rest \cap Mirrors(h) # {}

\* D: the largest finite shortest-path distance from the source.
MaxDist == CHOOSE k \in 0 .. NumGIDs :
             /\ ReachWithin(k) = ReachWithin(NumGIDs)
             /\ \A j \in 0 .. (k - 1) : ReachWithin(j) # ReachWithin(NumGIDs)

\* C24. BFS::go terminates on every finite graph: the do-while loop runs at
\* least one steady round and at most D + 1 steady rounds, where D is the
\* largest finite shortest-path distance from the source (so at most |V|
\* rounds), for every partition and every interleaving inside a round.
C24_Terminates ==
  /\ <>(bpc = "done")
  /\ [](numRounds <= MaxDist + 1 /\ MaxDist + 1 <= NumGIDs)
  /\ [](bpc = "done" => stage = "steady" /\ numRounds >= 1)

\* BFS::go returned after D + 1 steady rounds on a graph with D = 2, the
\* vertices spread over more than one host.
C24_Witness ==
  /\ bpc = "done"
  /\ MaxDist = 2 /\ numRounds = MaxDist + 1
  /\ \E h \in Hosts : Mirrors(h) # {}

\* The masters that would pass the filter of BFS::operator() now.
Unsettled == {x \in Hosts \X GIDs : x[2] \in Masters(x[1]) /\ IsActive(x[1], x[2])}

\* Every host's copies satisfy the edge inequality on its local edges.
LocalEdgesRelaxed ==
  \A h \in Hosts : \A s \in Masters(h) : \A t \in edges[s] :
    dist_current[h][t] <= dist_current[h][s] + 1

\* C25. Quiescence at exit: when BFS::go returns, on every host every
\* master satisfies dist_old = dist_current and, for every local edge (s,t),
\* dist_current[t] <= dist_current[s] + 1; the loop never stops while some
\* master on some host still has dist_old > dist_current, even when that
\* master's value was lowered by a concurrent relaxation or by a push-reduce
\* after the master had already been processed in the round: a master that
\* passes the filter after its turn in a steady round implies a nonzero
\* accumulator, and the loop condition is false only with no such master.
C25_QuiescentAtExit ==
  /\ bpc = "done" =>
       /\ \A h \in Hosts : \A s \in Masters(h) :
            dist_old[h][s] = dist_current[h][s]
       /\ LocalEdgesRelaxed
  /\ stage = "steady" =>
       \A x \in Unsettled :
         x[2] \notin todo[x[1]] => SumOver(accum, Hosts) > 0
  /\ (bpc = "reduce" /\ \A h \in Hosts : reduced[h] = 0) => Unsettled = {}

\* In a steady round's sync_push a master that was not active at its turn
\* in the do_all has just been lowered by the reduce of a mirror's value.
C25_Witness ==
  /\ stage = "steady" /\ bpc = "push"
  /\ \E x \in Unsettled :
       /\ x[2] \notin active
       /\ dist_current[x[1]][x[2]] < prePush[x[1]][x[2]]
====
